---- MODULE Spec2Model ----
(***************************************************************************)
(* A model of time_tracker.py: the session lifecycle (start_tracking,      *)
(* stop_tracking and the threads that race to stop a session), the record  *)
(* store and its cumulative export, and the weekly export scheduler.       *)
(*                                                                         *)
(* Instants are whole seconds since 2023-01-01 00:00:00 local time (a      *)
(* Sunday).  Formatted dates are sequences of characters, each character   *)
(* written as its code minus the code of '0' (so '-' is -3), and compared  *)
(* the way Python compares strings.                                        *)
(***************************************************************************)
EXTENDS Integers, Sequences, FiniteSets, TLC

(* ---------------------------- bounds ----------------------------------- *)

\* how many sessions start_tracking may make Active in one run
MaxStarts == 1
\* how many termination signals are delivered in one run
MaxSignals == 1
\* how many weekly Timers fire in one run
MaxFirings == 2
\* how many weeks of days a run of the weekly export may begin in
NumWeeks == 12
\* how many times the clock advances while no armed timer waits for its deadline
MaxIdleTicks == 0
\* how many calls of append_time_entry a test of the store makes
MaxAppends == 3

(* ---------------------------- constants -------------------------------- *)

\* MAX_DURATION = timedelta(hours=7, minutes=40), in seconds
MAX_DURATION == 7 * 3600 + 40 * 60

\* start_time = None
NoTime == -1

DaySeconds == 24 * 60 * 60

(* ------------------------ datetime and strings ------------------------- *)

IsLeap(y) == (y % 4 = 0 /\ y % 100 # 0) \/ y % 400 = 0

DaysInMonth(y, m) ==
    IF m = 2 THEN (IF IsLeap(y) THEN 29 ELSE 28)
    ELSE IF m \in {4, 6, 9, 11} THEN 30 ELSE 31

RECURSIVE YMD(_, _, _)
YMD(n, y, m) ==
    IF n < DaysInMonth(y, m) THEN <<y, m, n + 1>>
    ELSE YMD(n - DaysInMonth(y, m),
             IF m = 12 THEN y + 1 ELSE y,
             IF m = 12 THEN 1 ELSE m + 1)

\* the calendar date <<year, month, day>> of day number n (0 is 2023-01-01)
DateOf(n) == YMD(n, 2023, 1)

\* date.weekday(): Monday is 0, Sunday is 6
Weekday(n) == (n + 6) % 7

DayOf(t) == t \div DaySeconds
TimeOfDay(t) == t % DaySeconds

\* strftime('%d-%m-%Y') of day number n
StrfDMY(n) ==
    LET d == DateOf(n) IN
    << d[3] \div 10, d[3] % 10, -3,
       d[2] \div 10, d[2] % 10, -3,
       d[1] \div 1000, (d[1] \div 100) % 10, (d[1] \div 10) % 10, d[1] % 10 >>

\* strftime('%H:%M:%S') of instant t, as <<hour, minute, second>>
StrfHMS(t) ==
    LET s == TimeOfDay(t) IN << s \div 3600, (s % 3600) \div 60, s % 60 >>

\* Python's <= on two strings
StrLE(a, b) ==
    LET n == IF Len(a) < Len(b) THEN Len(a) ELSE Len(b)
        diff == {i \in 1..n : a[i] # b[i]}
    IN  IF diff = {} THEN Len(a) <= Len(b)
        ELSE LET k == CHOOSE i \in diff : \A j \in diff : i <= j
             IN  a[k] < b[k]

\* hours, minutes of stop_tracking: divmod(int(duration.total_seconds()), 3600)
\* and divmod(remainder, 60); formatted f"{hours}h{minutes}m"
DurationOf(start, end) ==
    LET secs == end - start IN << secs \div 3600, (secs % 3600) \div 60 >>

\* the entry dict of stop_tracking
MakeEntry(start, end, dur) ==
    [date |-> StrfDMY(DayOf(start)), start_time |-> StrfHMS(start),
     end_time |-> StrfHMS(end), duration |-> dur]

(* ------------------------------ processes ------------------------------ *)

Main == <<"main", 0>>
Listener(i) == <<"listener", i>>
AutoTimer(i) == <<"timer", i>>
Display(i) == <<"display", i>>
Handler(k) == <<"handler", k>>

Sessions == 1..MaxStarts
Listeners == {Listener(i) : i \in Sessions}
AutoTimers == {AutoTimer(i) : i \in Sessions}
Displays == {Display(i) : i \in Sessions}
Handlers == {Handler(k) : k \in 1..MaxSignals}
\* the threads of control that call stop_tracking
StopCallers == Listeners \cup AutoTimers \cup Handlers
Procs == {Main} \cup StopCallers \cup Displays

VARIABLES
    is_tracking,      \* global is_tracking
    start_time,       \* global start_time (NoTime is None)
    stop_event,       \* threading.Event stop_event: set or not
    auto_stop_timer,  \* global auto_stop_timer: 0 is None, i is session i's Timer
    timers,           \* each Timer object: its finished flag and its deadline
    csv_lock,         \* holder of csv_lock, <<>> when free
    store,            \* TIME_ENTRIES_FILE: absent, corrupt, or a JSON list
    csv,              \* MASTER_CSV_FILE: exists, header rows, data rows
    log,              \* LOG_FILE: the kinds of message written so far
    now,              \* datetime.now()
    ticks,            \* how many of the MaxIdleTicks steps the clock has taken
    pc,               \* where each thread of control is
    loc,              \* stop_tracking's locals, per caller
    ret,              \* where main continues when start_tracking returns
    nsig,             \* signals delivered
    nstarts,          \* sessions made Active
    wtimers,          \* the weekly Timers armed and not yet fired
    wpc,              \* where the thread of the weekly Timer that fired is
    wloc,             \* generate_weekly_csv's locals
    wfiles,           \* the weekly export files written, by the week's last day
    firings,          \* weekly Timers fired
    test              \* a test of the store: what load_time_entries gave it before
                      \* its calls, and the entries of its calls that returned

vars == << is_tracking, start_time, stop_event, auto_stop_timer, timers,
           csv_lock, store, csv, log, now, ticks, pc, loc, ret, nsig, nstarts,
           wtimers, wpc, wloc, wfiles, firings, test >>

weekly == << wtimers, wpc, wloc, wfiles, firings >>

session_globals == << is_tracking, start_time, stop_event, auto_stop_timer, timers >>
files == << store, csv, log >>

(* ------------------------------ helpers -------------------------------- *)

\* the clock advances in steps of MAX_DURATION
TickLen == MAX_DURATION

\* the instant at which a run begins: Sunday 2023-12-31 20:00:00 (a session
\* that lasts MAX_DURATION from there runs past midnight)
SessionStarts == { 364 * DaySeconds + 20 * 3600 }

\* a record of an earlier run: Friday 2023-12-29, 09:00:00 to 17:00:00
PriorStart == 362 * DaySeconds + 9 * 3600
PriorEntry ==
    MakeEntry(PriorStart, PriorStart + 8 * 3600,
              DurationOf(PriorStart, PriorStart + 8 * 3600))

\* json.dump, line 53: every value of an entry is a str and is written as a
\* JSON string, every entry as an object, the list as an array
JsonString(s) == [json |-> "string", chars |-> s]
JsonObject(entry) == [key \in DOMAIN entry |-> JsonString(entry[key])]
JsonDump(entries) == [n \in DOMAIN entries |-> JsonObject(entries[n])]

\* json.load, line 46: an array of objects of strings gives a list of dicts
\* of str
JsonValue(token) == token.chars
JsonLoad(text) ==
    [n \in DOMAIN text |-> [key \in DOMAIN text[n] |-> JsonValue(text[n][key])]]

StoreAbsent == [state |-> "absent", data |-> <<>>]
\* a file that json.load rejects (an empty or half-written file is one)
StoreCorrupt == [state |-> "corrupt", data |-> <<>>]
\* a file whose bytes the text layer of open(..., 'r') cannot decode
StoreUndecodable == [state |-> "undecodable", data |-> <<>>]
\* a file that holds the JSON text of a list of entries
StoreValid(entries) == [state |-> "valid", data |-> JsonDump(entries)]

CsvAbsent == [exists |-> FALSE, headers |-> 0, rows |-> <<>>]

NoLocals == [end_time |-> NoTime, duration |-> <<>>, entry |-> <<>>, entries |-> <<>>]

Terminated == {"none", "done", "crashed"}

\* the process is gone once the main thread has left sys.exit or died
ProcessAlive == pc[Main] \notin {"exited", "crashed"}

HandlerActive(k) == pc[Handler(k)] \notin Terminated

\* A signal handler runs in the main thread: main is suspended under it, and a
\* handler is suspended under a handler that interrupted it.
CanRun(p) ==
    /\ ProcessAlive
    /\ CASE p = Main -> \A k \in 1..MaxSignals : ~HandlerActive(k)
         [] p[1] = "handler" -> \A k \in 1..MaxSignals : k > p[2] => ~HandlerActive(k)
         [] OTHER -> TRUE

\* Thread.is_alive() of session i's Timer
TimerAlive(i) == pc[AutoTimer(i)] \notin Terminated

\* An uncaught exception: it ends a thread; raised in a signal handler it
\* propagates into the main thread and ends the process.
Raise(p) ==
    IF p[1] = "handler"
    THEN [q \in Procs |->
            IF q = Main \/ (q[1] = "handler" /\ pc[q] \notin Terminated)
            THEN "crashed" ELSE pc[q]]
    ELSE [pc EXCEPT ![p] = "crashed"]

\* the frames an exception leaves are gone, and their locals with them
Unwind(p) ==
    IF p[1] = "handler"
    THEN [q \in StopCallers |-> IF q[1] = "handler" THEN NoLocals ELSE loc[q]]
    ELSE [loc EXCEPT ![p] = NoLocals]

\* where a caller of stop_tracking continues when it returns
AfterStop(p) == IF p[1] = "handler" THEN "h_248" ELSE "done"

\* stop_tracking(manual=...): True only from listen_for_stop
Manual(p) == p[1] = "listener"

(* ------------------------------- Init ---------------------------------- *)

InitSession ==
    /\ is_tracking = FALSE
    /\ start_time = NoTime
    /\ stop_event = FALSE
    /\ auto_stop_timer = 0
    /\ timers = [i \in Sessions |-> [finished |-> FALSE, deadline |-> 0]]
    /\ csv_lock = <<>>
    /\ log = {}
    /\ ticks = 0
    /\ loc = [p \in StopCallers |-> NoLocals]
    /\ nsig = 0
    /\ nstarts = 0

NoWeeklyLocals ==
    [start_of_week |-> 0, end_of_week |-> 0, entries |-> <<>>, weekly_entries |-> <<>>]

\* no test is running
NoTest == [before |-> <<>>, given |-> <<>>]

InitWeekly ==
    /\ wtimers = <<>>
    /\ wpc = "none"
    /\ wloc = NoWeeklyLocals
    /\ wfiles = {}
    /\ firings = 0

\* the files of a first run, or those an earlier run left
InitFiles ==
    \/ store = StoreAbsent /\ csv = CsvAbsent
    \/ /\ store = StoreValid(<<PriorEntry>>)
       /\ csv = [exists |-> TRUE, headers |-> 1, rows |-> <<PriorEntry>>]

Init ==
    /\ InitSession
    /\ InitWeekly
    /\ InitFiles
    /\ now \in SessionStarts
    /\ pc = [p \in Procs |-> IF p = Main THEN "m_259" ELSE "none"]
    /\ ret = "m_wait"
    /\ test = NoTest

(* ------------------------------ the clock ------------------------------ *)

\* an armed auto-stop timer waits for its deadline
TimerPending ==
    \E i \in Sessions :
        pc[AutoTimer(i)] = "waiting" /\ ~timers[i].finished /\ now < timers[i].deadline

\* time passes: always while an armed timer waits for its deadline, and
\* MaxIdleTicks times besides
Tick ==
    /\ ProcessAlive
    /\ TimerPending \/ ticks < MaxIdleTicks
    /\ now' = now + TickLen
    /\ ticks' = IF TimerPending THEN ticks ELSE ticks + 1
    /\ UNCHANGED << session_globals, csv_lock, files, pc, loc, ret, nsig, nstarts, test, weekly >>

(* --------------------------- start_tracking ---------------------------- *)

\* start_tracking without its guard
StartGuardMissing == FALSE

\* lines 96-98: the guard
StartGuard == is_tracking

\* line 96: already tracking: notice and return; otherwise go on
StartCheck ==
    /\ pc[Main] = "s_96" /\ CanRun(Main)
    /\ IF StartGuard
       THEN pc' = [pc EXCEPT ![Main] = ret]
       ELSE pc' = [pc EXCEPT ![Main] = "s_99"]
    /\ UNCHANGED << session_globals, csv_lock, files, now, ticks, loc, ret, nsig, nstarts, test, weekly >>

\* line 99 (the model stops a caller that would begin more than MaxStarts sessions)
StartSetTracking ==
    /\ pc[Main] = "s_99" /\ CanRun(Main)
    /\ nstarts < MaxStarts
    /\ is_tracking' = TRUE
    /\ nstarts' = nstarts + 1
    /\ pc' = [pc EXCEPT ![Main] = "s_100"]
    /\ UNCHANGED << start_time, stop_event, auto_stop_timer, timers, csv_lock,
                    files, now, ticks, loc, ret, nsig, test, weekly >>

\* lines 100-102
StartSetTime ==
    /\ pc[Main] = "s_100" /\ CanRun(Main)
    /\ start_time' = now
    /\ log' = log \cup {"started"}
    /\ pc' = [pc EXCEPT ![Main] = "s_105"]
    /\ UNCHANGED << is_tracking, stop_event, auto_stop_timer, timers, csv_lock,
                    store, csv, now, ticks, loc, ret, nsig, nstarts, test, weekly >>

\* lines 105-107: a new Timer, started
StartArmTimer ==
    /\ pc[Main] = "s_105" /\ CanRun(Main)
    /\ auto_stop_timer' = nstarts
    /\ timers' = [timers EXCEPT ![nstarts] =
                     [finished |-> FALSE, deadline |-> now + MAX_DURATION]]
    /\ pc' = [pc EXCEPT ![Main] = "s_110", ![AutoTimer(nstarts)] = "waiting"]
    /\ UNCHANGED << is_tracking, start_time, stop_event, csv_lock, files, now,
                    ticks, loc, ret, nsig, nstarts, test, weekly >>

\* line 110
StartDisplay ==
    /\ pc[Main] = "s_110" /\ CanRun(Main)
    /\ pc' = [pc EXCEPT ![Main] = "s_113", ![Display(nstarts)] = "d_161"]
    /\ UNCHANGED << session_globals, csv_lock, files, now, ticks, loc, ret, nsig, nstarts, test, weekly >>

\* line 113, and the return
StartListener ==
    /\ pc[Main] = "s_113" /\ CanRun(Main)
    /\ pc' = [pc EXCEPT ![Main] = ret, ![Listener(nstarts)] = "l_170"]
    /\ UNCHANGED << session_globals, csv_lock, files, now, ticks, loc, ret, nsig, nstarts, test, weekly >>

start_tracking ==
    \/ StartCheck
    \/ StartSetTracking
    \/ StartSetTime
    \/ StartArmTimer
    \/ StartDisplay
    \/ StartListener

(* ---------------------------- stop_tracking ---------------------------- *)

\* stop_tracking without its guard
StopGuardMissing == FALSE

\* lines 118-120: the guard, "if not is_tracking: return"
StopGuard == ~is_tracking

\* line 118
StopCheck(p) ==
    /\ pc[p] = "st_118" /\ CanRun(p)
    /\ IF StopGuard
       THEN pc' = [pc EXCEPT ![p] = AfterStop(p)]
       ELSE pc' = [pc EXCEPT ![p] = "st_121"]
    /\ UNCHANGED << session_globals, csv_lock, files, now, ticks, loc, ret, nsig, nstarts, test, weekly >>

\* lines 121-124: end_time, duration; datetime - None raises TypeError
StopTakeTime(p) ==
    /\ pc[p] = "st_121" /\ CanRun(p)
    /\ IF start_time = NoTime
       THEN /\ pc' = Raise(p)
            /\ loc' = Unwind(p)
       ELSE /\ pc' = [pc EXCEPT ![p] = "st_127"]
            /\ loc' = [loc EXCEPT ![p].end_time = now,
                                  ![p].duration = DurationOf(start_time, now)]
    /\ UNCHANGED << session_globals, csv_lock, files, now, ticks, ret, nsig, nstarts, test, weekly >>

\* stop_tracking without the cancel
CancelTimerSkipped == timers

\* lines 127-128: Timer.cancel() sets the Timer's finished flag
CancelTimer ==
    IF auto_stop_timer # 0 /\ TimerAlive(auto_stop_timer)
    THEN [timers EXCEPT ![auto_stop_timer].finished = TRUE]
    ELSE timers

\* lines 127-136: cancel the timer, log the stop as manual or automatic
StopCancelAndLog(p) ==
    /\ pc[p] = "st_127" /\ CanRun(p)
    /\ timers' = CancelTimer
    /\ log' = log \cup {IF Manual(p) THEN "stopped_manual" ELSE "stopped_auto"}
    /\ pc' = [pc EXCEPT ![p] = "st_139"]
    /\ UNCHANGED << is_tracking, start_time, stop_event, auto_stop_timer, csv_lock,
                    store, csv, now, ticks, loc, ret, nsig, nstarts, test, weekly >>

\* lines 139-145: the entry, built from the global start_time
StopMakeEntry(p) ==
    /\ pc[p] = "st_139" /\ CanRun(p)
    /\ loc' = [loc EXCEPT ![p].entry =
                  << MakeEntry(start_time, loc[p].end_time, loc[p].duration) >>]
    /\ pc' = [pc EXCEPT ![p] = "ap_57"]
    /\ UNCHANGED << session_globals, csv_lock, files, now, ticks, ret, nsig, nstarts, test, weekly >>

\* load_time_entries, line 46: f.read() inside json.load raises
\* UnicodeDecodeError on bytes that do not decode; line 47 catches
\* JSONDecodeError only
LoadRaises == store.state = "undecodable"

\* load_time_entries, lines 42-48, when it returns: [] when the file is
\* missing or json.load raises JSONDecodeError
LoadTimeEntries == IF store.state = "valid" THEN JsonLoad(store.data) ELSE <<>>

\* append_time_entry line 57-58: entries = load_time_entries(); entries.append(entry).
\* open() or read() may raise OSError, which nothing catches.
AppendLoad(p) ==
    /\ pc[p] = "ap_57" /\ CanRun(p)
    /\ \/ /\ ~LoadRaises
          /\ loc' = [loc EXCEPT ![p].entries = LoadTimeEntries \o loc[p].entry]
          /\ pc' = [pc EXCEPT ![p] = "sv_52"]
       \/ /\ store.state # "absent"
          /\ pc' = Raise(p)
          /\ loc' = Unwind(p)
    /\ UNCHANGED << session_globals, csv_lock, files, now, ticks, ret, nsig, nstarts, test, weekly >>

\* save_time_entries line 52: open(..., 'w') truncates the file; it may raise
SaveOpen(p) ==
    /\ pc[p] = "sv_52" /\ CanRun(p)
    /\ \/ /\ store' = StoreCorrupt
          /\ pc' = [pc EXCEPT ![p] = "sv_53"]
          /\ loc' = loc
       \/ /\ pc' = Raise(p)
          /\ loc' = Unwind(p)
          /\ store' = store
    /\ UNCHANGED << session_globals, csv_lock, csv, log, now, ticks, ret, nsig, nstarts, test, weekly >>

\* a save that writes the entry just added and nothing else
DumpedLastOnly(entries) == StoreValid(<< entries[Len(entries)] >>)

\* what json.dump leaves in the file
Dumped(entries) == StoreValid(entries)

\* save_time_entries line 53: json.dump writes the list; a failed write raises
\* and leaves the truncated file
SaveDump(p) ==
    /\ pc[p] = "sv_53" /\ CanRun(p)
    /\ \/ /\ store' = Dumped(loc[p].entries)
          /\ pc' = [pc EXCEPT ![p] = "csv_64"]
          /\ loc' = loc
       \/ /\ pc' = Raise(p)
          /\ loc' = Unwind(p)
          /\ store' = store
    /\ UNCHANGED << session_globals, csv_lock, csv, log, now, ticks, ret, nsig, nstarts, test, weekly >>

\* append_to_csv line 64: with csv_lock
CsvAcquire(p) ==
    /\ pc[p] = "csv_64" /\ CanRun(p)
    /\ csv_lock = <<>>
    /\ csv_lock' = p
    /\ pc' = [pc EXCEPT ![p] = "csv_65"]
    /\ UNCHANGED << session_globals, files, now, ticks, loc, ret, nsig, nstarts, test, weekly >>

\* lines 65-77: the header when the file did not exist, then the row
CsvAppended(entry) ==
    [exists |-> TRUE,
     headers |-> IF csv.exists THEN csv.headers ELSE csv.headers + 1,
     rows |-> Append(csv.rows, entry)]

\* append_to_csv lines 65-80, and the lock's release; an exception is caught
\* and logged
CsvWrite(p) ==
    /\ pc[p] = "csv_65" /\ CanRun(p)
    /\ \/ /\ csv' = CsvAppended(loc[p].entry[1])
          /\ log' = log
       \/ /\ csv' = csv
          /\ log' = log \cup {"csv_error"}
    /\ csv_lock' = <<>>
    /\ pc' = [pc EXCEPT ![p] = "st_147"]
    /\ UNCHANGED << session_globals, store, now, ticks, loc, ret, nsig, nstarts, test, weekly >>

\* line 147
StopSetIdle(p) ==
    /\ pc[p] = "st_147" /\ CanRun(p)
    /\ is_tracking' = FALSE
    /\ pc' = [pc EXCEPT ![p] = "st_148"]
    /\ UNCHANGED << start_time, stop_event, auto_stop_timer, timers, csv_lock,
                    files, now, ticks, loc, ret, nsig, nstarts, test, weekly >>

\* lines 148-153, and the return
StopSetEvent(p) ==
    /\ pc[p] = "st_148" /\ CanRun(p)
    /\ stop_event' = TRUE
    /\ log' = log \cup {"csv_added"}
    /\ pc' = [pc EXCEPT ![p] = AfterStop(p)]
    /\ loc' = [loc EXCEPT ![p] = NoLocals]
    /\ UNCHANGED << is_tracking, start_time, auto_stop_timer, timers, csv_lock,
                    store, csv, now, ticks, ret, nsig, nstarts, test, weekly >>

stop_tracking(p) ==
    \/ StopCheck(p)
    \/ StopTakeTime(p)
    \/ StopCancelAndLog(p)
    \/ StopMakeEntry(p)
    \/ AppendLoad(p)
    \/ SaveOpen(p)
    \/ SaveDump(p)
    \/ CsvAcquire(p)
    \/ CsvWrite(p)
    \/ StopSetIdle(p)
    \/ StopSetEvent(p)

(* -------------------------- the session's threads --------------------- *)

\* the loop test of display_timer (line 161) and listen_for_stop (line 170)
LoopOn == is_tracking /\ ~stop_event

\* listen_for_stop line 170
ListenLoop(i) ==
    /\ pc[Listener(i)] = "l_170" /\ CanRun(Listener(i))
    /\ pc' = [pc EXCEPT ![Listener(i)] = IF LoopOn THEN "l_171" ELSE "done"]
    /\ UNCHANGED << session_globals, csv_lock, files, now, ticks, loc, ret, nsig, nstarts, test, weekly >>

\* lines 171-174: a key arrives; 'd' or 'D' calls stop_tracking(manual=True)
\* and breaks, any other key goes round the loop
ListenKey(i) ==
    /\ pc[Listener(i)] = "l_171" /\ CanRun(Listener(i))
    /\ \E key \in {"d", "x"} :
          pc' = [pc EXCEPT ![Listener(i)] = IF key = "d" THEN "st_118" ELSE "l_170"]
    /\ UNCHANGED << session_globals, csv_lock, files, now, ticks, loc, ret, nsig, nstarts, test, weekly >>

listen_for_stop(i) == ListenLoop(i) \/ ListenKey(i)

\* display_timer lines 161-166: while the test holds, render and sleep one
\* second (nothing changes); when it fails, the thread ends
display_timer(i) ==
    /\ pc[Display(i)] = "d_161" /\ CanRun(Display(i))
    /\ pc' = [pc EXCEPT ![Display(i)] = IF LoopOn THEN "d_161" ELSE "done"]
    /\ UNCHANGED << session_globals, csv_lock, files, now, ticks, loc, ret, nsig, nstarts, test, weekly >>

\* threading.Timer.run: finished.wait(interval) times out with the flag unset,
\* and the function, auto_stop (lines 155-157), is called
TimerFire(i) ==
    /\ pc[AutoTimer(i)] = "waiting" /\ CanRun(AutoTimer(i))
    /\ ~timers[i].finished
    /\ now >= timers[i].deadline
    /\ pc' = [pc EXCEPT ![AutoTimer(i)] = "st_118"]
    /\ UNCHANGED << session_globals, csv_lock, files, now, ticks, loc, ret, nsig, nstarts, test, weekly >>

\* threading.Timer.run: the wait ends because cancel() set the flag; the
\* function is not called
TimerCancelled(i) ==
    /\ pc[AutoTimer(i)] = "waiting" /\ CanRun(AutoTimer(i))
    /\ timers[i].finished
    /\ pc' = [pc EXCEPT ![AutoTimer(i)] = "done"]
    /\ UNCHANGED << session_globals, csv_lock, files, now, ticks, loc, ret, nsig, nstarts, test, weekly >>

auto_stop(i) == TimerFire(i) \/ TimerCancelled(i)

(* ----------------------------- handle_exit ----------------------------- *)

\* SIGINT or SIGTERM arrives: the interpreter runs handle_exit in the main thread
Signal ==
    /\ ProcessAlive
    /\ nsig < MaxSignals
    /\ nsig' = nsig + 1
    /\ pc' = [pc EXCEPT ![Handler(nsig + 1)] = "h_244"]
    /\ UNCHANGED << session_globals, csv_lock, files, now, ticks, loc, ret, nstarts, test, weekly >>

\* line 244: if is_tracking, stop_tracking(manual=False); else line 247
HandleExitCheck(k) ==
    /\ pc[Handler(k)] = "h_244" /\ CanRun(Handler(k))
    /\ pc' = [pc EXCEPT ![Handler(k)] = IF is_tracking THEN "st_118" ELSE "h_247"]
    /\ UNCHANGED << session_globals, csv_lock, files, now, ticks, loc, ret, nsig, nstarts, test, weekly >>

\* line 247
HandleExitSetEvent(k) ==
    /\ pc[Handler(k)] = "h_247" /\ CanRun(Handler(k))
    /\ stop_event' = TRUE
    /\ pc' = [pc EXCEPT ![Handler(k)] = "h_248"]
    /\ UNCHANGED << is_tracking, start_time, auto_stop_timer, timers, csv_lock,
                    files, now, ticks, loc, ret, nsig, nstarts, test, weekly >>

\* lines 248-250: the message, and the return to the interrupted code
HandleExitReturn(k) ==
    /\ pc[Handler(k)] = "h_248" /\ CanRun(Handler(k))
    /\ log' = log \cup {"handler_exit"}
    /\ pc' = [pc EXCEPT ![Handler(k)] = "done"]
    /\ UNCHANGED << session_globals, csv_lock, store, csv, now, ticks, loc, ret, nsig, nstarts, test, weekly >>

handle_exit(k) == HandleExitCheck(k) \/ HandleExitSetEvent(k) \/ HandleExitReturn(k)

(* ------------------------- the weekly export --------------------------- *)

\* WEEKLY_CSV_TIME = '16:00': strptime(..., '%H:%M').time(), in seconds
TargetTime == 16 * 3600

\* WEEKLY_CSV_DAY = 'Friday', as a weekday number
ConfiguredWeekday == 4

\* datetime.strptime(WEEKLY_CSV_DAY, '%A') is 1900-01-01 00:00:00 whatever the
\* day's name: the name is parsed and dropped.  Its day number here:
StrptimeDay == 0 - 44925

\* line 180: datetime.strptime(WEEKLY_CSV_DAY, '%A').weekday()
TargetWeekday == Weekday(StrptimeDay)

\* line 180 and line 182: the days to add
DaysAhead(at) ==
    LET days_ahead == (TargetWeekday - Weekday(DayOf(at))) % 7
    IN  IF days_ahead = 0 /\ TimeOfDay(at) > TargetTime THEN 7 ELSE days_ahead

\* schedule_weekly_csv lines 178-184: next_run, computed at instant `at`
NextRun(at) == (DayOf(at) + DaysAhead(at)) * DaySeconds + TargetTime

\* schedule_weekly_csv run twice over: two Timers armed
ScheduledTwice ==
    Append(Append(wtimers, [armed_at |-> now, next_run |-> NextRun(now)]),
           [armed_at |-> now, next_run |-> NextRun(now)])

\* schedule_weekly_csv lines 178-193: a Timer armed for next_run
Scheduled == Append(wtimers, [armed_at |-> now, next_run |-> NextRun(now)])

\* the filter with the day after the week's last let in
InWindowOffByOne(entry, start_of_week, end_of_week) ==
    /\ StrLE(StrfDMY(start_of_week), entry.date)
    /\ StrLE(entry.date, StrfDMY(end_of_week + 1))

\* line 207: the test of the filter, on strings
InWindow(entry, start_of_week, end_of_week) ==
    /\ StrLE(StrfDMY(start_of_week), entry.date)
    /\ StrLE(entry.date, StrfDMY(end_of_week))

\* lines 205-208: the entries kept, in order
Filter(entries, start_of_week, end_of_week) ==
    LET Keep(entry) == InWindow(entry, start_of_week, end_of_week)
    IN  SelectSeq(entries, Keep)

\* an entry of the store that has no "date" key
NoKey == <<>>
Malformed(entries) == \E n \in DOMAIN entries : entries[n].date = NoKey

\* how late a Timer's thread may run after its instant: not at all, a
\* second, or two days (the machine slept)
Lateness == {0, 1, 2 * DaySeconds}

\* the weekly Timer's instant is reached and its thread runs generate_weekly_csv
WeeklyFire ==
    /\ ProcessAlive
    /\ wpc \in {"none", "done"}
    /\ wtimers # <<>>
    /\ firings < MaxFirings
    /\ \E late \in Lateness :
          LET due == Head(wtimers).next_run + late
          IN  now' = IF now > due THEN now ELSE due
    /\ wtimers' = Tail(wtimers)
    /\ wpc' = "g_197"
    /\ firings' = firings + 1
    /\ UNCHANGED << session_globals, csv_lock, files, ticks, pc, loc, ret, nsig,
                    nstarts, test, wloc, wfiles >>

\* lines 197-199: Monday and Sunday of the week of now, as days
WeeklyBegin ==
    /\ ProcessAlive /\ wpc = "g_197"
    /\ LET monday == DayOf(now) - Weekday(DayOf(now))
       IN  wloc' = [wloc EXCEPT !.start_of_week = monday, !.end_of_week = monday + 6]
    /\ wpc' = "g_202"
    /\ UNCHANGED << session_globals, csv_lock, files, now, ticks, pc, loc, ret, nsig,
                    nstarts, test, wtimers, wfiles, firings >>

\* line 202: load_time_entries(); an OSError from open() or read() ends the thread
WeeklyLoad ==
    /\ ProcessAlive /\ wpc = "g_202"
    /\ \/ /\ ~LoadRaises
          /\ wloc' = [wloc EXCEPT !.entries = LoadTimeEntries]
          /\ wpc' = "g_205"
       \/ /\ store.state # "absent"
          /\ wloc' = NoWeeklyLocals
          /\ wpc' = "crashed"
    /\ UNCHANGED << session_globals, csv_lock, files, now, ticks, pc, loc, ret, nsig,
                    nstarts, test, wtimers, wfiles, firings >>

\* lines 205-208: entry["date"] of an entry without the key raises KeyError
WeeklyFilter ==
    /\ ProcessAlive /\ wpc = "g_205"
    /\ IF Malformed(wloc.entries)
       THEN /\ wloc' = NoWeeklyLocals
            /\ wpc' = "crashed"
       ELSE /\ wloc' = [wloc EXCEPT !.weekly_entries =
                           Filter(wloc.entries, wloc.start_of_week, wloc.end_of_week)]
            /\ wpc' = "g_210"
    /\ UNCHANGED << session_globals, csv_lock, files, now, ticks, pc, loc, ret, nsig,
                    nstarts, test, wtimers, wfiles, firings >>

\* the export files with the one named by end_of_week written anew
Written(week_end, rows) ==
    {f \in wfiles : f.week_end # week_end} \cup {[week_end |-> week_end, rows |-> rows]}

\* lines 210-237: nothing found, or the file written, or the write failed
\* (caught and logged)
WeeklyWrite ==
    /\ ProcessAlive /\ wpc = "g_210"
    /\ IF wloc.weekly_entries = <<>>
       THEN /\ log' = log \cup {"weekly_none"}
            /\ wfiles' = wfiles
       ELSE \/ /\ wfiles' = Written(wloc.end_of_week, wloc.weekly_entries)
               /\ log' = log \cup {"weekly_written"}
            \/ /\ wfiles' = wfiles
               /\ log' = log \cup {"weekly_error"}
    /\ wpc' = "g_240"
    /\ UNCHANGED << session_globals, csv_lock, store, csv, now, ticks, pc, loc, ret,
                    nsig, nstarts, test, wtimers, wloc, firings >>

\* a second passes while the job that began on the stroke of its instant runs
WeeklyDelay ==
    /\ ProcessAlive /\ wpc \in {"g_202", "g_205", "g_210", "g_240"}
    /\ TimeOfDay(now) = TargetTime
    /\ now' = now + 1
    /\ UNCHANGED << session_globals, csv_lock, files, ticks, pc, loc, ret, nsig,
                    nstarts, test, weekly >>

\* line 240: schedule_weekly_csv(), and the thread ends
WeeklyReschedule ==
    /\ ProcessAlive /\ wpc = "g_240"
    /\ wtimers' = Scheduled
    /\ log' = log \cup {"weekly_scheduled"}
    /\ wloc' = NoWeeklyLocals
    /\ wpc' = "done"
    /\ UNCHANGED << session_globals, csv_lock, store, csv, now, ticks, pc, loc, ret,
                    nsig, nstarts, test, wfiles, firings >>

generate_weekly_csv ==
    \/ WeeklyBegin
    \/ WeeklyLoad
    \/ WeeklyFilter
    \/ WeeklyWrite
    \/ WeeklyReschedule

(* -------------------------------- main --------------------------------- *)

\* line 259: schedule_weekly_csv()
MainSchedule ==
    /\ pc[Main] = "m_259" /\ CanRun(Main)
    /\ wtimers' = Scheduled
    /\ log' = log \cup {"weekly_scheduled"}
    /\ pc' = [pc EXCEPT ![Main] = "m_prompt"]
    /\ UNCHANGED << session_globals, csv_lock, store, csv, now, ticks, loc, ret, nsig,
                    nstarts, test, wpc, wloc, wfiles, firings >>

\* lines 263-273: 'y' calls start_tracking and leaves the loop, 'n' exits with
\* code 0; any other key prompts again and changes nothing
MainKeyYes ==
    /\ pc[Main] = "m_prompt" /\ CanRun(Main)
    /\ pc' = [pc EXCEPT ![Main] = "s_96"]
    /\ ret' = "m_wait"
    /\ UNCHANGED << session_globals, csv_lock, files, now, ticks, loc, nsig, nstarts, test, weekly >>

MainKeyNo ==
    /\ pc[Main] = "m_prompt" /\ CanRun(Main)
    /\ log' = log \cup {"aborted"}
    /\ pc' = [pc EXCEPT ![Main] = "exited"]
    /\ UNCHANGED << session_globals, csv_lock, store, csv, now, ticks, loc, ret, nsig, nstarts, test, weekly >>

\* lines 276-281: stop_event.wait() returns once the event is set; sys.exit(0)
MainExit ==
    /\ pc[Main] = "m_wait" /\ CanRun(Main)
    /\ stop_event
    /\ log' = log \cup {"exiting"}
    /\ pc' = [pc EXCEPT ![Main] = "exited"]
    /\ UNCHANGED << session_globals, csv_lock, store, csv, now, ticks, loc, ret, nsig, nstarts, test, weekly >>

main == MainSchedule \/ MainKeyYes \/ MainKeyNo \/ MainExit

(* --------------------------- specifications ---------------------------- *)

Threads ==
    \/ \E p \in StopCallers : stop_tracking(p)
    \/ \E i \in Sessions : listen_for_stop(i)
    \/ \E i \in Sessions : display_timer(i)
    \/ \E i \in Sessions : auto_stop(i)

Next ==
    \/ main
    \/ start_tracking
    \/ Threads
    \/ \E k \in 1..MaxSignals : handle_exit(k)
    \/ Signal
    \/ Tick

\* the program as main runs it
Spec == Init /\ [][Next]_vars

\* a test's view of the module: a caller that calls start_tracking again and
\* again, with the session's threads running; no signals and no exit
ApiCallStart ==
    /\ pc[Main] = "api"
    /\ pc' = [pc EXCEPT ![Main] = "s_96"]
    /\ ret' = "api"
    /\ UNCHANGED << session_globals, csv_lock, files, now, ticks, loc, nsig, nstarts, test, weekly >>

InitApi ==
    /\ InitSession
    /\ InitWeekly
    /\ InitFiles
    /\ now \in SessionStarts
    /\ pc = [p \in Procs |-> IF p = Main THEN "api" ELSE "none"]
    /\ ret = "api"
    /\ test = NoTest

NextApi ==
    \/ ApiCallStart
    \/ start_tracking
    \/ Threads
    \/ Tick

SpecApi == InitApi /\ [][NextApi]_vars

\* Spec with the scheduling the interpreter gives: time passes, and every
\* thread that can take a step of the program eventually takes one.  Keys and
\* signals come from outside and are not forced.
Fairness ==
    /\ WF_vars(Tick)
    /\ WF_vars(start_tracking)
    /\ WF_vars(MainExit)
    /\ \A p \in StopCallers : WF_vars(stop_tracking(p))
    /\ \A i \in Sessions : WF_vars(auto_stop(i)) /\ WF_vars(ListenLoop(i))
    /\ \A k \in 1..MaxSignals : WF_vars(handle_exit(k))

LiveSpec == Spec /\ Fairness

\* the days a run of the weekly export may begin on: whole weeks from Monday
\* 2024-12-16, through the week 30-12-2024 to 05-01-2025 that the year turns
\* in and the weeks that January and February end in
FirstMonday == 102 * 7 + 1
WeeklyDays == FirstMonday .. (FirstMonday + 7 * NumWeeks - 1)

\* the times of day it may begin at: midnight, the second before the target
\* time, the target time, the second after, the last second of the day
WeeklyTimes == {0, TargetTime - 1, TargetTime, TargetTime + 1, DaySeconds - 1}

\* a store with one record for every day, from the week before to the weeks
\* after: each day's session ran 09:00:00 to 17:00:00
DailyEntry(day) ==
    MakeEntry(day * DaySeconds + 9 * 3600, day * DaySeconds + 17 * 3600,
              DurationOf(day * DaySeconds + 9 * 3600, day * DaySeconds + 17 * 3600))

DailyStore ==
    StoreValid([n \in 1 .. (7 * (NumWeeks + 2 + MaxFirings)) |->
                   DailyEntry(FirstMonday - 8 + n)])

\* a store whose list holds an object without a "date" key
MalformedStore ==
    StoreValid(<< [date |-> NoKey, start_time |-> <<9, 0, 0>>,
                   end_time |-> <<17, 0, 0>>, duration |-> <<8, 0>>] >>)

InitWeeklyRun ==
    /\ InitSession
    /\ InitWeekly
    /\ now \in {d * DaySeconds + t : d \in WeeklyDays, t \in WeeklyTimes}
    /\ store \in {DailyStore, StoreValid(<<>>), StoreAbsent, StoreCorrupt,
                  StoreUndecodable, MalformedStore}
    /\ csv = CsvAbsent
    /\ pc = [p \in Procs |-> IF p = Main THEN "m_259" ELSE "none"]
    /\ ret = "m_wait"
    /\ test = NoTest

NextWeekly ==
    \/ MainSchedule
    \/ WeeklyFire
    \/ generate_weekly_csv
    \/ WeeklyDelay

\* the weekly export on its own timeline, main waiting at its prompt
WeeklySpec == InitWeeklyRun /\ [][NextWeekly]_vars

(* ------------------------ a test of the store -------------------------- *)

\* the threads a test runs append_time_entry in
TestThreads == Listeners \cup AutoTimers

\* the entries it appends: two sessions of two days
TestEntries == {DailyEntry(FirstMonday), DailyEntry(FirstMonday + 1)}

\* a thread that is not inside a call
Idle(p) == pc[p] \in {"none", "done"}
CallsMade ==
    Len(test.given) + Cardinality({q \in TestThreads : ~Idle(q)})

\* a thread calls append_time_entry(entry), line 55
ApiCallAppend(p, entry) ==
    /\ pc[Main] = "api"
    /\ Idle(p)
    /\ CallsMade < MaxAppends
    /\ pc' = [pc EXCEPT ![p] = "ap_57"]
    /\ loc' = [loc EXCEPT ![p].entry = << entry >>]
    /\ UNCHANGED << session_globals, csv_lock, files, now, ticks, ret, nsig, nstarts,
                    test, weekly >>

\* the same, with no other call under way
ApiCallAppendAlone(p, entry) ==
    /\ \A q \in TestThreads : Idle(q) \/ pc[q] = "crashed"
    /\ ApiCallAppend(p, entry)

\* append_time_entry, lines 57-60
append_time_entry(p) ==
    \/ AppendLoad(p)
    \/ SaveOpen(p)
    \/ SaveDump(p)
    \/ CsvAcquire(p)
    \/ CsvWrite(p)

\* line 60 done: append_time_entry returns to the test
ApiReturn(p) ==
    /\ pc[Main] = "api"
    /\ pc[p] = "st_147"
    /\ pc' = [pc EXCEPT ![p] = "done"]
    /\ test' = [test EXCEPT !.given = Append(@, loc[p].entry[1])]
    /\ loc' = [loc EXCEPT ![p] = NoLocals]
    /\ UNCHANGED << session_globals, csv_lock, files, now, ticks, ret, nsig, nstarts,
                    weekly >>

\* a step taken on a disk that works: no OSError from open() or write(), so a
\* call dies only of what load_time_entries raises on the file's content
OnWorkingDisk(p) ==
    /\ pc'[p] = "crashed" => (pc[p] = "ap_57" /\ LoadRaises)
    /\ "csv_error" \in log' => "csv_error" \in log

\* the files a test begins with: none, those of an earlier run, or those of
\* an earlier run with the store damaged
InitStore ==
    /\ InitSession
    /\ InitWeekly
    /\ now \in SessionStarts
    /\ \/ store = StoreAbsent /\ csv = CsvAbsent
       \/ /\ store \in {StoreValid(<<PriorEntry>>), StoreCorrupt, StoreUndecodable}
          /\ csv = [exists |-> TRUE, headers |-> 1, rows |-> <<PriorEntry>>]
    /\ pc = [p \in Procs |-> IF p = Main THEN "api" ELSE "none"]
    /\ ret = "api"
    /\ test = [before |-> LoadTimeEntries, given |-> <<>>]

\* one call after another, on a disk that works
NextStoreSeq ==
    \E p \in TestThreads :
        \/ \E entry \in TestEntries : ApiCallAppendAlone(p, entry)
        \/ append_time_entry(p) /\ OnWorkingDisk(p)
        \/ ApiReturn(p)

SpecStoreSeq == InitStore /\ [][NextStoreSeq]_vars

\* calls in threads that run together, on a disk that may fail
NextStore ==
    \E p \in TestThreads :
        \/ \E entry \in TestEntries : ApiCallAppend(p, entry)
        \/ append_time_entry(p)
        \/ ApiReturn(p)

SpecStore == InitStore /\ [][NextStore]_vars

(* ------------------------- what the claims speak of -------------------- *)

\* the places of stop_tracking past its guard
PastGuard ==
    {"st_121", "st_127", "st_139", "ap_57", "sv_52", "sv_53", "csv_64", "csv_65",
     "st_147", "st_148"}

InStop(p) == pc[p] \in PastGuard \cup {"st_118"}

\* the records of a sequence that belong to the session begun at start_time
SessionRecords(rows) ==
    {n \in DOMAIN rows :
        /\ rows[n].date = StrfDMY(DayOf(start_time))
        /\ rows[n].start_time = StrfHMS(start_time)}

\* a session was made Active and is Idle again, every stop_tracking call has
\* returned and no thread of control died of an exception
SessionOver ==
    /\ nstarts >= 1
    /\ pc[Main] \notin {"s_99", "s_100", "crashed"}
    /\ ~is_tracking
    /\ \A p \in StopCallers : ~InStop(p) /\ pc[p] # "crashed"

\* what a call of stop_tracking or start_tracking may change, the files included
Observable ==
    << is_tracking, start_time, auto_stop_timer, timers, stop_event, store, csv, log >>

(* ------------------------------- claims -------------------------------- *)

\* C1: whatever the interleaving of the stop_tracking calls of the listener,
\* the auto-stop timer and the signal handler, once the session is over the
\* store holds exactly one record of it.
C1_ExactlyOneRecord ==
    SessionOver => Cardinality(SessionRecords(LoadTimeEntries)) = 1

\* C2: a stop_tracking call made while no session is Active never passes the
\* guard, and the step that returns from it leaves is_tracking, start_time,
\* the timer, the event, the store, the export and the log as they were.
C2_StopWhileIdleIsNoop ==
    [][\A p \in StopCallers :
          (pc[p] = "st_118" /\ ~is_tracking) =>
              /\ pc'[p] # "st_121"
              /\ pc'[p] = AfterStop(p) => UNCHANGED Observable]_vars

\* C2 witness: the handler is back from a stop_tracking call that found the
\* session already Idle (the event not yet set by the caller that won)
C2_Witness ==
    /\ pc[Handler(1)] = "h_248"
    /\ ~stop_event
    /\ ~is_tracking
    /\ "stopped_auto" \notin log

\* C3: a start_tracking call made while a session is Active returns at once
\* and leaves is_tracking, start_time, the timer and every thread as they
\* were; and never are two auto-stop timers armed.
C3_StartWhileActiveIsNoop ==
    /\ [](Cardinality({i \in Sessions :
              pc[AutoTimer(i)] = "waiting" /\ ~timers[i].finished}) <= 1)
    /\ [][(pc[Main] = "s_96" /\ is_tracking /\ pc'[Main] # "s_96") =>
              /\ pc'[Main] = ret
              /\ UNCHANGED << is_tracking, start_time, auto_stop_timer, timers, nstarts >>
              /\ \A p \in Listeners \cup Displays \cup AutoTimers : pc'[p] = pc[p]]_vars

\* C3 witness: start_tracking has been called while the session is Active,
\* its timer armed and its threads running
C3_Witness ==
    /\ pc[Main] = "s_96"
    /\ is_tracking
    /\ pc[AutoTimer(1)] = "waiting"
    /\ pc[Listener(1)] = "l_171"

\* the key was pressed: the listener's stop_tracking call is under way, or over
ManualRequested ==
    \/ "stopped_manual" \in log
    \/ \E i \in Sessions : InStop(Listener(i)) \/ pc[Listener(i)] = "crashed"

\* the session was finalized as an automatic stop and its record is stored
AutoFinalized ==
    /\ ~is_tracking
    /\ "stopped_auto" \in log
    /\ SessionRecords(LoadTimeEntries) # {}

\* C4: an Active session that no key and no signal stops is in the end
\* finalized as an automatic stop, Idle with its record in the store.
C4_AutoStopFinalizes ==
    is_tracking ~> (AutoFinalized \/ ManualRequested \/ nsig > 0)

\* the listener's stop_tracking call has made the session Idle
ManualDone(i) ==
    /\ "stopped_manual" \in log
    /\ pc[Listener(i)] \in {"st_148", "done"}

\* C5: once a manual stop has made the session Idle with the timer not yet
\* in stop_tracking past the guard, the timer is cancelled if it still waits
\* and, if it fired all the same, its stop_tracking call returns at the guard.
C5_ManualStopPreventsAuto ==
    /\ [](\A i \in Sessions :
              (ManualDone(i) /\ pc[AutoTimer(i)] = "waiting") => timers[i].finished)
    /\ [][\A i \in Sessions :
              (ManualDone(i) /\ pc[AutoTimer(i)] \in {"waiting", "st_118"}) =>
                  pc'[AutoTimer(i)] \in {"waiting", "st_118", "done"}]_vars

\* C5 witness: the manual stop is done and the timer, which fired all the
\* same, is about to test is_tracking
C5_Witness ==
    /\ ManualDone(1)
    /\ pc[AutoTimer(1)] = "st_118"
    /\ timers[1].finished
    /\ nsig = 0

\* C6: a listener or timer thread whose stop_tracking call died of an I/O
\* error has all the same left the session Idle and the event set.
C6_FinalizeSurvivesWriteError ==
    \A p \in Listeners \cup AutoTimers :
        pc[p] = "crashed" => (~is_tracking /\ stop_event)

\* C7: once a weekly Timer has fired and its thread has ended, in whatever
\* way, the next weekly Timer is armed.
C7_EveryFiringReschedules ==
    (firings >= 1 /\ wpc \in {"done", "crashed"}) => wtimers # <<>>

\* the entry is one of those the filter kept
Selected(entry) == \E m \in DOMAIN wloc.weekly_entries : wloc.weekly_entries[m] = entry

\* the entry's date is the date of a day from the week's Monday to its Sunday
InWeek(entry) ==
    \E d \in wloc.start_of_week .. wloc.end_of_week : StrfDMY(d) = entry.date

\* C8: when the filter has run, a stored record is among the entries kept
\* if and only if its date is a day of the current Monday-to-Sunday week.
C8_ExactlyTheWeek ==
    wpc = "g_210" =>
        \A n \in DOMAIN wloc.entries :
            Selected(wloc.entries[n]) <=> InWeek(wloc.entries[n])

\* the date, as the store writes it, of the Monday after the current week
FollowingMonday == StrfDMY(wloc.end_of_week + 1)

\* C9: no record dated the Monday after the week is among the entries the
\* filter kept, nor in the export file written for the week.
C9_FollowingMondayExcluded ==
    /\ wpc \in {"g_210", "g_240"} =>
          \A m \in DOMAIN wloc.weekly_entries :
              wloc.weekly_entries[m].date # FollowingMonday
    /\ \A f \in wfiles : \A m \in DOMAIN f.rows :
          f.rows[m].date # StrfDMY(f.week_end + 1)

\* C9 witness: the filter has run for a week whose Sunday is in the next
\* year, on a store holding a record dated the Monday after it; and the
\* week before has its file, with rows, though the store holds a record
\* dated the Monday after that week too
C9_Witness ==
    /\ wpc = "g_210"
    /\ DateOf(wloc.end_of_week)[1] # DateOf(wloc.start_of_week)[1]
    /\ \E n \in DOMAIN wloc.entries : wloc.entries[n].date = FollowingMonday
    /\ \E f \in wfiles :
          /\ f.rows # <<>>
          /\ f.week_end + 1 = wloc.start_of_week
          /\ \E n \in DOMAIN wloc.entries :
                wloc.entries[n].date = StrfDMY(f.week_end + 1)

\* the first day after `day` that falls on weekday w
Upcoming(day, w) == CHOOSE d \in (day + 1) .. (day + 7) : Weekday(d) = w

\* C10: every weekly Timer is armed for: today at the target time when armed
\* on the configured weekday before the target time; seven days later when
\* armed on that weekday after the target time; the upcoming configured
\* weekday at the target time when armed on any other weekday.
C10_NextRunAsConfigured ==
    \A n \in DOMAIN wtimers :
        LET day == DayOf(wtimers[n].armed_at)
            tod == TimeOfDay(wtimers[n].armed_at)
            next_run == wtimers[n].next_run
        IN  /\ (Weekday(day) = ConfiguredWeekday /\ tod < TargetTime) =>
                   next_run = day * DaySeconds + TargetTime
            /\ (Weekday(day) = ConfiguredWeekday /\ tod > TargetTime) =>
                   next_run = (day + 7) * DaySeconds + TargetTime
            /\ Weekday(day) # ConfiguredWeekday =>
                   next_run = Upcoming(day, ConfiguredWeekday) * DaySeconds + TargetTime

\* a termination is under way: a caller of stop_tracking is past the guard
StopUnderWay == \E p \in StopCallers : pc[p] \in PastGuard

\* C11: once a manual stop, the auto-stop timeout or a termination signal
\* has a stop_tracking call past its guard in an Active session, the event
\* gets set, main stops waiting and the process exits through sys.exit(0).
C11_TerminationExits ==
    StopUnderWay ~> pc[Main] = "exited"

\* C12: the handler calls stop_tracking when the session is Active and that
\* call, past the guard, logs an automatic stop and comes back to the
\* handler; when no session is Active the handler sets the event and leaves
\* the session's state and the store alone; and no step of the handler ends
\* the main thread.
C12_HandlerFinalizesOrMarks ==
    [][\A k \in 1..MaxSignals :
          LET h == Handler(k) IN
          /\ (pc[h] = "h_244" /\ pc'[h] # "h_244") =>
                 pc'[h] = IF is_tracking THEN "st_118" ELSE "h_247"
          /\ (pc[h] = "st_127" /\ pc'[h] # "st_127") =>
                 /\ "stopped_auto" \in log'
                 /\ "stopped_manual" \in log' => "stopped_manual" \in log
          /\ (pc[h] = "h_247" /\ pc'[h] # "h_247") =>
                 /\ stop_event'
                 /\ UNCHANGED << is_tracking, start_time, auto_stop_timer, timers,
                                 store, csv >>
          /\ pc[h] \in PastGuard => pc'[h] # "crashed"
          /\ pc'[h] # pc[h] => pc'[Main] = pc[Main]]_vars

\* no call of the test is under way
Quiescent == \A p \in TestThreads : Idle(p) \/ pc[p] = "crashed"

\* C13: when the calls of append_time_entry made one after another have
\* returned, load_time_entries returns what it returned before them followed
\* by the entries they were given, in the order of the calls.
C13_RoundTrip ==
    (Quiescent /\ ~LoadRaises) => LoadTimeEntries = test.before \o test.given

\* C13 witness: three calls have returned, on a store that held a record,
\* and the entries given were not all the same
C13_Witness ==
    /\ Quiescent
    /\ test.before = << PriorEntry >>
    /\ Len(test.given) = 3
    /\ test.given[1] # test.given[2]
    /\ test.given[1] = test.given[3]

\* C14: the load_time_entries call of append_time_entry on a store that is
\* missing or corrupt returns [] and does not raise: the append goes on to
\* save_time_entries with the new entry alone.
C14_LoadNeverRaises ==
    [][\A p \in TestThreads :
          (/\ pc[p] = "ap_57"
           /\ store.state \in {"absent", "corrupt", "undecodable"}
           /\ pc'[p] # "ap_57") =>
              /\ pc'[p] = "sv_52"
              /\ loc'[p].entries = loc[p].entry]_vars

\* how many times an entry occurs in a sequence
Count(rows, entry) == Cardinality({n \in DOMAIN rows : rows[n] = entry})

\* C15: when the calls of append_time_entry that ran together have all
\* returned, none having failed, every entry is in the store as many times
\* as it was given, and in the export as many times too.
C15_ConcurrentAppendsKept ==
    (/\ Quiescent
     /\ \A p \in TestThreads : pc[p] # "crashed"
     /\ "csv_error" \notin log) =>
        \A entry \in TestEntries :
            /\ Count(LoadTimeEntries, entry) = Count(test.given, entry)
            /\ Count(csv.rows, entry) = Count(test.given, entry)

\* a is a prefix of b
IsPrefix(a, b) == Len(a) <= Len(b) /\ \A n \in DOMAIN a : a[n] = b[n]

\* C16: whenever no save is between its truncation of the file and its
\* write, the records the store held before the calls are still its first
\* records.
C16_StoreOnlyGrows ==
    (~LoadRaises /\ \A p \in TestThreads : pc[p] # "sv_53") =>
        IsPrefix(test.before, LoadTimeEntries)

\* a stop_tracking call is past the guard and has not yet finished its
\* append to the store and the export
AppendInFlight(p) ==
    pc[p] \in {"st_121", "st_127", "st_139", "ap_57", "sv_52", "sv_53", "csv_64", "csv_65"}

\* C17: when main has passed stop_event.wait() and left through sys.exit,
\* no stop_tracking call that passed the guard is still short of the end of
\* its append (stated for the runs in which no signal came, where only
\* stop_tracking sets the event).
C17_NoExitDuringAppend ==
    (pc[Main] = "exited" /\ nsig = 0) => \A p \in StopCallers : ~AppendInFlight(p)

\* the target instant of the weekly Timer whose thread runs at instant t: a
\* Timer fires no more than Lateness after its instant, so it is the last
\* instant up to t that falls on the target weekday at the target time
LastTarget(t) ==
    LET day == CHOOSE d \in (DayOf(t) - 7) .. DayOf(t) :
                   /\ Weekday(d) = TargetWeekday
                   /\ d * DaySeconds + TargetTime <= t
                   /\ (d + 7) * DaySeconds + TargetTime > t
    IN  day * DaySeconds + TargetTime

\* C18: the Timer that an export which fired at or after its instant T arms
\* at line 240 is set for T + 7 days: not for T again, and not for an instant
\* before now.
C18_RecursWeekly ==
    [][(wpc = "g_240" /\ wpc' = "done") =>
          LET next_run == wtimers'[Len(wtimers')].next_run
              T == LastTarget(now)
          IN  /\ next_run = T + 7 * DaySeconds
              /\ next_run # T
              /\ next_run >= now]_vars

\* C19: when the process has exited after start_tracking made a session
\* Active, the session is Idle and the store holds exactly one record of it.
C19_NoSessionLeftUnrecorded ==
    (pc[Main] = "exited" /\ nstarts >= 1) =>
        /\ ~is_tracking
        /\ Cardinality(SessionRecords(LoadTimeEntries)) = 1

\* C20: never are two weekly Timers armed and not yet fired.
C20_OneWeeklyTimer == Len(wtimers) <= 1

\* C20 witness: the second export has run to its end and armed the one Timer
\* that is pending
C20_Witness ==
    /\ firings = 2
    /\ wpc = "done"
    /\ Len(wtimers) = 1
    /\ wtimers[1].armed_at > wtimers[1].next_run - 7 * DaySeconds

====
